---- MODULE Spec2Model ----
(***************************************************************************)
(* A model of sprompt (src/src/main.rs): the duration formatter, the path  *)
(* abbreviator, the escape catalog, the prompt composer with its argument  *)
(* validation, and the zsh and bash hook scripts that `init` emits.        *)
(*                                                                         *)
(* Text is modelled as a sequence of one-character strings, so that        *)
(* formatting, trimming, splitting and replacing are computed and not      *)
(* assumed.  The ESC control character is the element "ESC"; the two       *)
(* non-ASCII glyphs of the source are the elements "U+276F" (the unicode   *)
(* separator) and "U+E0A0" (the branch glyph).                             *)
(***************************************************************************)
EXTENDS Integers, Sequences, FiniteSets, TLC

VARIABLES
    h_secs, h_out, h_pc,
    p_cwd, p_root, p_short, p_res, p_pc,
    e_tok, e_shell, e_out, e_other, e_pc,
    m_args, m_env, m_stdout, m_stderr, m_status, m_pc,
    z_seconds, z_env, z_cmd, z_obs,
    b_seconds, b_env, b_fired, b_obs

hvars == <<h_secs, h_out, h_pc>>
pvars == <<p_cwd, p_root, p_short, p_res, p_pc>>
evars == <<e_tok, e_shell, e_out, e_other, e_pc>>
mvars == <<m_args, m_env, m_stdout, m_stderr, m_status, m_pc>>
zvars == <<z_seconds, z_env, z_cmd, z_obs>>
bvars == <<b_seconds, b_env, b_fired, b_obs>>
vars == <<hvars, pvars, evars, mvars, zvars, bvars>>
\* what each component leaves alone
hrest == <<pvars, evars, mvars, zvars, bvars>>
prest == <<hvars, evars, mvars, zvars, bvars>>
erest == <<hvars, pvars, mvars, zvars, bvars>>
mrest == <<hvars, pvars, evars, zvars, bvars>>
zrest == <<hvars, pvars, evars, mvars, bvars>>
brest == <<hvars, pvars, evars, mvars, zvars>>

(***************************************************************************)
(* Text helpers (Rust std: format!, str::trim_end)                         *)
(***************************************************************************)
RECURSIVE Pow2(_)
Pow2(n) == IF n <= 0 THEN 1 ELSE 2 * Pow2(n - 1)

\* floor(log2 n) for n >= 1
RECURSIVE Log2(_)
Log2(n) == IF n <= 1 THEN 0 ELSE 1 + Log2(n \div 2)

DigitChar(d) == <<"0", "1", "2", "3", "4", "5", "6", "7", "8", "9">>[d + 1]

\* format!("{}", n) of an unsigned integer: decimal, no padding
RECURSIVE Digits(_)
Digits(n) == IF n < 10 THEN <<DigitChar(n)>>
             ELSE Digits(n \div 10) \o <<DigitChar(n % 10)>>

IsWhitespace(c) == c \in {" ", "\t", "\n"}

\* str::trim_end: drop the trailing whitespace
RECURSIVE TrimEnd(_)
TrimEnd(s) == IF s = <<>> THEN <<>>
              ELSE IF IsWhitespace(s[Len(s)]) THEN TrimEnd(SubSeq(s, 1, Len(s) - 1))
              ELSE s

\* [String]::join
RECURSIVE JoinWith(_, _)
JoinWith(parts, sep) ==
    IF parts = <<>> THEN <<>>
    ELSE IF Len(parts) = 1 THEN parts[1]
    ELSE parts[1] \o sep \o JoinWith(Tail(parts), sep)

(***************************************************************************)
(* humanize_duration (main.rs 24-48)                                       *)
(***************************************************************************)
\* `secs as f32`: a u64 converted to IEEE-754 binary32 (24-bit significand),
\* round to nearest, ties to even.  The result is an integer value.
ToF32(n) ==
    IF n < Pow2(24) THEN n
    ELSE LET unit == Pow2(Log2(n) - 23)
             rem  == n % unit
             base == n - rem
         IN  IF 2 * rem < unit THEN base
             ELSE IF 2 * rem > unit THEN base + unit
             ELSE IF (base \div unit) % 2 = 0 THEN base ELSE base + unit

\* `(x / d).trunc() as usize` where x is an integer-valued f32 and d is 60.0 or
\* 3600.0: one binary32 division, rounded to nearest (ties to even), truncated.
\* With k = floor(x/d) and r = x mod d > 0 the exact quotient lies strictly
\* between k and k+1; it rounds to k+1 exactly when its distance (d-r)/d to k+1
\* is at most half the spacing 2^(e-23) of the floats below k+1 (a tie goes to
\* k+1, whose significand is even for every k < 2^23).
F32DivTrunc(x, d) ==
    LET k  == x \div d
        r  == x % d
        e  == IF k = 0 THEN -1 ELSE Log2(k)
        sh == 24 - e
    IN  IF r = 0 THEN ToF32(k)
        ELSE IF Pow2(sh) <= d /\ (d - r) * Pow2(sh) <= d THEN k + 1
        ELSE k

RECURSIVE humanize_duration(_)
humanize_duration(secs) ==
    IF secs = 0 THEN <<>>
    ELSE IF secs < 60 THEN Digits(secs) \o <<"s">>
    ELSE IF secs < 3600 THEN
        TrimEnd(Digits(F32DivTrunc(ToF32(secs), 60)) \o <<"m", " ">>
                \o humanize_duration(secs % 60))
    ELSE
        TrimEnd(Digits(F32DivTrunc(ToF32(secs), 3600)) \o <<"h", " ">>
                \o humanize_duration(secs % 3600))

\* ---- inputs of the duration formatter
MaxSmallSecs == 130
MaxHourOff == 3
\* the table of test_humanize_duration (main.rs 51-70)
TableSecs == {0, 59, 60, 60 + 59, 60 * 2 + 1, 60 * 59 + 59, 60 * 60, 60 * 60 + 1,
              60 * 60 * 34 + 60 * 59 + 59}
\* hour boundaries, below and above 2^24 seconds (= 4660h 20m 16s)
SampleHours == {1, 2, 34, 35, 4660, 4661, 4662, 4663, 9000}
HourSecs == {3600 * h - d : h \in SampleHours, d \in 0..MaxHourOff}
SecsInputs == (0..MaxSmallSecs) \cup TableSecs \cup HourSecs

(***************************************************************************)
(* get_current_path (main.rs 328-369) and Git::toplevel (main.rs 320-322)  *)
(***************************************************************************)
IsPrefix(pat, s) == Len(pat) <= Len(s) /\ SubSeq(s, 1, Len(pat)) = pat

\* str::replace: every non-overlapping match, left to right
RECURSIVE Replace(_, _, _)
Replace(s, pat, to) ==
    IF Len(s) < Len(pat) THEN s
    ELSE IF IsPrefix(pat, s) THEN to \o Replace(SubSeq(s, Len(pat) + 1, Len(s)), pat, to)
    ELSE <<s[1]>> \o Replace(Tail(s), pat, to)

\* str::find of one character: the 0-based index of the first match, -1 for None
RECURSIVE FindFrom(_, _, _)
FindFrom(s, c, i) ==
    IF i > Len(s) THEN -1
    ELSE IF s[i] = c THEN i - 1
    ELSE FindFrom(s, c, i + 1)

Find(s, c) == FindFrom(s, c, 1)

\* str::split('/'): n separators give n + 1 segments, empty ones included
RECURSIVE Split(_, _)
Split(s, c) ==
    LET idx == Find(s, c)
    IN  IF idx = -1 THEN <<s>>
        ELSE <<SubSeq(s, 1, idx)>> \o Split(SubSeq(s, idx + 2, Len(s)), c)

\* .rev().take(3).collect() followed by .reverse(): the last three, in order
LastThree(parts) ==
    IF Len(parts) <= 3 THEN parts ELSE SubSeq(parts, Len(parts) - 2, Len(parts))

HomePrefix == <<"/", "h", "o", "m", "e", "/">>

\* main.rs 334-345
HomeSubstitute(path) ==
    IF IsPrefix(HomePrefix, path) THEN
        LET replaced == Replace(path, HomePrefix, <<>>)
            idx      == Find(replaced, "/")
        IN  IF idx # -1 THEN <<"~">> \o SubSeq(replaced, idx + 1, Len(replaced))
            ELSE <<"~">>
    ELSE path

Some(v) == [kind |-> "Some", val |-> v]
None == [kind |-> "None", val |-> <<>>]
\* an out-of-bounds index: the thread panics and the process aborts
Panic == [kind |-> "panic", val |-> <<>>]

\* main.rs 349-359; parts[i] of the source is parts[i + 1] here
ShortInRepoSpecIndices(path, toplevel) ==
    LET parts == LastThree(Split(path, "/"))
    IN  IF Len(parts) < 2 THEN Panic
        ELSE IF parts[2] = toplevel THEN Some(JoinWith(Tail(parts), <<"/">>))
        ELSE IF parts[1] = toplevel THEN Some(JoinWith(Tail(Tail(parts)), <<"/">>))
        ELSE Some(JoinWith(parts, <<"/">>))

ShortInRepo(path, toplevel) ==
    LET parts == LastThree(Split(path, "/"))
    IN  IF Len(parts) < 2 THEN Panic
        ELSE IF parts[2] = toplevel THEN Some(JoinWith(Tail(parts), <<"/">>))
        ELSE IF Len(parts) < 3 THEN Panic
        ELSE IF parts[3] = toplevel THEN Some(JoinWith(Tail(Tail(parts)), <<"/">>))
        ELSE Some(JoinWith(parts, <<"/">>))

\* main.rs 361-365
ShortGeneric(path) == Some(JoinWith(LastThree(Split(path, "/")), <<"/">>))

\* `short` is None (full path), Some(None) or Some(Some(toplevel)); `cwd` is the
\* result of env::current_dir() followed by to_str()
get_current_path(cwd, short) ==
    IF cwd.kind = "None" THEN None
    ELSE LET path == HomeSubstitute(cwd.val)
         IN  IF short.kind = "None" THEN Some(path)
             ELSE IF short.val.kind = "None" THEN ShortGeneric(path)
             ELSE ShortInRepo(path, short.val.val)

\* ---- the environment: the working directory and the enclosing repository
MaxDepth == 4
SegHome == <<"h", "o", "m", "e">>
SegNames == {SegHome, <<"u">>, <<"p">>, <<"s">>}

SegSeqs == UNION {[1..n -> SegNames] : n \in 0..MaxDepth}

\* the absolute path with the directory names `segs`
RECURSIVE AbsPath(_)
AbsPath(segs) ==
    IF segs = <<>> THEN <<>> ELSE <<"/">> \o Head(segs) \o AbsPath(Tail(segs))

PathOf(segs) == IF segs = <<>> THEN <<"/">> ELSE AbsPath(segs)

\* Git::toplevel: the file name of the work directory made of the first
\* `root` names of the working directory; -1 when Repository::discover fails,
\* and None for a repository at "/", which has no file name
Toplevel(segs, root) ==
    IF root <= 0 THEN None ELSE Some(segs[root])

\* main.rs 189-194
ShortArg(segs, root, short) ==
    IF short THEN [kind |-> "Some", val |-> Toplevel(segs, root)]
    ELSE [kind |-> "None", val |-> None]

PInit ==
    /\ p_cwd \in SegSeqs
    /\ p_root \in -1..Len(p_cwd)
    /\ p_short \in BOOLEAN
    /\ p_res = None
    /\ p_pc = "call"

PIdle ==
    /\ p_cwd = <<>>
    /\ p_root = -1
    /\ p_short = FALSE
    /\ p_res = None
    /\ p_pc = "idle"

GetCurrentPath ==
    /\ p_pc = "call"
    /\ p_res' = get_current_path(Some(PathOf(p_cwd)), ShortArg(p_cwd, p_root, p_short))
    /\ p_pc' = "done"
    /\ UNCHANGED <<p_cwd, p_root, p_short, prest>>

(***************************************************************************)
(* Shell, Color, Attribute (main.rs 371-378, 435-623)                      *)
(***************************************************************************)
ESC == "ESC"

Shells == {"Zsh", "Bash"}
Colors == <<"Black", "Red", "Green", "Yellow", "Blue", "Magenta", "Cyan", "White">>
Attributes == <<"Reset", "Bold", "Underline", "Reversed">>

\* a colour table that forgets the zero-width markers of zsh
ColorToStrBare(self, bright, shell) ==
    LET i == CHOOSE n \in 1..8 : Colors[n] = self
    IN  <<ESC, "[", "3", DigitChar(i - 1)>>
        \o (IF bright THEN <<";", "1">> ELSE <<>>) \o <<"m">>

\* Color::to_str (main.rs 458-592)
Color_to_str(self, bright, shell) ==
    CASE self = "Black" ->
        (CASE shell = "Bash" ->
            IF bright THEN <<ESC, "[", "3", "0", ";", "1", "m">>
            ELSE <<ESC, "[", "3", "0", "m">>
          [] shell = "Zsh" ->
            IF bright THEN <<"%", "{", ESC, "[", "3", "0", ";", "1", "m", "%", "}">>
            ELSE <<"%", "{", ESC, "[", "3", "0", "m", "%", "}">>)
      [] self = "Red" ->
        (CASE shell = "Bash" ->
            IF bright THEN <<ESC, "[", "3", "1", ";", "1", "m">>
            ELSE <<ESC, "[", "3", "1", "m">>
          [] shell = "Zsh" ->
            IF bright THEN <<"%", "{", ESC, "[", "3", "1", ";", "1", "m", "%", "}">>
            ELSE <<"%", "{", ESC, "[", "3", "1", "m", "%", "}">>)
      [] self = "Green" ->
        (CASE shell = "Bash" ->
            IF bright THEN <<ESC, "[", "3", "2", ";", "1", "m">>
            ELSE <<ESC, "[", "3", "2", "m">>
          [] shell = "Zsh" ->
            IF bright THEN <<"%", "{", ESC, "[", "3", "2", ";", "1", "m", "%", "}">>
            ELSE <<"%", "{", ESC, "[", "3", "2", "m", "%", "}">>)
      [] self = "Yellow" ->
        (CASE shell = "Bash" ->
            IF bright THEN <<ESC, "[", "3", "3", ";", "1", "m">>
            ELSE <<ESC, "[", "3", "3", "m">>
          [] shell = "Zsh" ->
            IF bright THEN <<"%", "{", ESC, "[", "3", "3", ";", "1", "m", "%", "}">>
            ELSE <<"%", "{", ESC, "[", "3", "3", "m", "%", "}">>)
      [] self = "Blue" ->
        (CASE shell = "Bash" ->
            IF bright THEN <<ESC, "[", "3", "4", ";", "1", "m">>
            ELSE <<ESC, "[", "3", "4", "m">>
          [] shell = "Zsh" ->
            IF bright THEN <<"%", "{", ESC, "[", "3", "4", ";", "1", "m", "%", "}">>
            ELSE <<"%", "{", ESC, "[", "3", "4", "m", "%", "}">>)
      [] self = "Magenta" ->
        (CASE shell = "Bash" ->
            IF bright THEN <<ESC, "[", "3", "5", ";", "1", "m">>
            ELSE <<ESC, "[", "3", "5", "m">>
          [] shell = "Zsh" ->
            IF bright THEN <<"%", "{", ESC, "[", "3", "5", ";", "1", "m", "%", "}">>
            ELSE <<"%", "{", ESC, "[", "3", "5", "m", "%", "}">>)
      [] self = "Cyan" ->
        (CASE shell = "Bash" ->
            IF bright THEN <<ESC, "[", "3", "6", ";", "1", "m">>
            ELSE <<ESC, "[", "3", "6", "m">>
          [] shell = "Zsh" ->
            IF bright THEN <<"%", "{", ESC, "[", "3", "6", ";", "1", "m", "%", "}">>
            ELSE <<"%", "{", ESC, "[", "3", "6", "m", "%", "}">>)
      [] self = "White" ->
        (CASE shell = "Bash" ->
            IF bright THEN <<ESC, "[", "3", "7", ";", "1", "m">>
            ELSE <<ESC, "[", "3", "7", "m">>
          [] shell = "Zsh" ->
            IF bright THEN <<"%", "{", ESC, "[", "3", "7", ";", "1", "m", "%", "}">>
            ELSE <<"%", "{", ESC, "[", "3", "7", "m", "%", "}">>)

\* Attribute::to_str (main.rs 601-623)
Attribute_to_str(self, shell) ==
    CASE self = "Reset" ->
        (CASE shell = "Bash" -> <<ESC, "[", "0", "m">>
          [] shell = "Zsh" -> <<"%", "{", ESC, "[", "0", "m", "%", "}">>)
      [] self = "Bold" ->
        (CASE shell = "Bash" -> <<ESC, "[", "1", "m">>
          [] shell = "Zsh" -> <<"%", "{", ESC, "[", "1", "m", "%", "}">>)
      [] self = "Underline" ->
        (CASE shell = "Bash" -> <<ESC, "[", "4", "m">>
          [] shell = "Zsh" -> <<"%", "{", ESC, "[", "4", "m", "%", "}">>)
      [] self = "Reversed" ->
        (CASE shell = "Bash" -> <<ESC, "[", "7", "m">>
          [] shell = "Zsh" -> <<"%", "{", ESC, "[", "7", "m", "%", "}">>)

\* ---- a lookup of one token for one target, then for the other target
Tokens ==
    [type : {"color"}, name : {Colors[i] : i \in 1..8}, bright : BOOLEAN]
    \cup [type : {"attr"}, name : {Attributes[i] : i \in 1..4}, bright : {FALSE}]

Sequence(tok, shell) ==
    IF tok.type = "color" THEN Color_to_str(tok.name, tok.bright, shell)
    ELSE Attribute_to_str(tok.name, shell)

OtherShell(shell) == IF shell = "Zsh" THEN "Bash" ELSE "Zsh"

EInit ==
    /\ e_tok \in Tokens
    /\ e_shell \in Shells
    /\ e_out = <<>>
    /\ e_other = <<>>
    /\ e_pc = "call"

EIdle ==
    /\ e_tok = [type |-> "attr", name |-> "Reset", bright |-> FALSE]
    /\ e_shell = "Bash"
    /\ e_out = <<>>
    /\ e_other = <<>>
    /\ e_pc = "idle"

Lookup ==
    /\ e_pc = "call"
    /\ e_out' = Sequence(e_tok, e_shell)
    /\ e_pc' = "one"
    /\ UNCHANGED <<e_tok, e_shell, e_other, erest>>

LookupOther ==
    /\ e_pc = "one"
    /\ e_other' = Sequence(e_tok, OtherShell(e_shell))
    /\ e_pc' = "both"
    /\ UNCHANGED <<e_tok, e_shell, e_out, erest>>

HInit ==
    /\ h_secs \in SecsInputs
    /\ h_out = <<>>
    /\ h_pc = "call"

HIdle ==
    /\ h_secs = 0
    /\ h_out = <<>>
    /\ h_pc = "idle"

Humanize ==
    /\ h_pc = "call"
    /\ h_out' = humanize_duration(h_secs)
    /\ h_pc' = "done"
    /\ UNCHANGED <<h_secs, hrest>>

(***************************************************************************)
(* main, `prompt` subcommand (main.rs 99-146, 175-262)                     *)
(***************************************************************************)
MIN_CMD_EXEC_TIME == 2

IsDigit(c) == c \in {"0", "1", "2", "3", "4", "5", "6", "7", "8", "9"}
DigitVal(c) == CHOOSE d \in 0..9 : DigitChar(d) = c
AllDigits(s) == s # <<>> /\ \A i \in 1..Len(s) : IsDigit(s[i])

RECURSIVE DecimalValue(_)
DecimalValue(s) ==
    IF s = <<>> THEN 0
    ELSE 10 * DecimalValue(SubSeq(s, 1, Len(s) - 1)) + DigitVal(s[Len(s)])

\* str::parse::<usize>: an optional '+', then one or more decimal digits; -1
\* stands for Err (the inputs of this model stay far below usize::MAX)
ParseUsize(s) ==
    LET digits == IF s # <<>> /\ s[1] = "+" THEN Tail(s) ELSE s
    IN  IF AllDigits(digits) THEN DecimalValue(digits) ELSE -1

\* main.rs 15-21
elapsed_seconds_validator(s) == ParseUsize(s) # -1

StrZsh == <<"z", "s", "h">>
StrBash == <<"b", "a", "s", "h">>
\* Shell::SUPPORTED (main.rs 378)
SUPPORTED == {StrZsh, StrBash}

\* Shell::try_from (main.rs 438-444)
Shell_try_from(s) ==
    IF s = StrZsh THEN Some("Zsh")
    ELSE IF s = StrBash THEN Some("Bash")
    ELSE None

\* clap's get_matches for the prompt subcommand (main.rs 107-145, 172): the three
\* required options are present, the shell is one of the possible values and
\* the validator accepts the elapsed seconds
ClapAccepts(args) ==
    /\ args.exit_code.kind = "Some"
    /\ args.shell.kind = "Some"
    /\ args.elapsed_seconds.kind = "Some"
    /\ args.shell.val \in SUPPORTED
    /\ elapsed_seconds_validator(args.elapsed_seconds.val)

\* main.rs 176
non_zero_exit_status(args) == args.exit_code.val # <<"0">>

\* main.rs 180-185
branch_symbol(use_unicode) == IF use_unicode THEN <<"U+E0A0", " ">> ELSE <<>>
separator_symbol(use_unicode) == IF use_unicode THEN <<"U+276F">> ELSE <<":", ":">>

\* main.rs 287-290: Git::new fails when the working directory is unknown
GitOf(env) == IF env.cwd.kind = "Some" /\ env.root >= 0 THEN Some(env.root) ELSE None

\* main.rs 189-195, before unwrap_or
PathResult(args, env) ==
    get_current_path(
        IF env.cwd.kind = "Some" THEN Some(PathOf(env.cwd.val)) ELSE None,
        IF args.short_path
        THEN [kind |-> "Some",
              val |-> IF GitOf(env).kind = "Some" THEN Toplevel(env.cwd.val, env.root)
                      ELSE None]
        ELSE [kind |-> "None", val |-> None])

unwrap_or(opt, default) == IF opt.kind = "Some" THEN opt.val ELSE default

\* main.rs 209-217
RootClause(is_root, shell) ==
    IF is_root
    THEN Attribute_to_str("Bold", shell) \o Color_to_str("Red", FALSE, shell)
         \o <<"r", "o", "o", "t">> \o Attribute_to_str("Reset", shell)
         \o <<" ", "i", "n", " ">>
    ELSE <<>>

\* main.rs 218-224
PathClause(path, shell) ==
    Attribute_to_str("Bold", shell) \o Color_to_str("Cyan", FALSE, shell) \o path \o <<" ">>

\* main.rs 225-237
BranchClause(branch, use_unicode, shell) ==
    IF branch.kind = "Some"
    THEN Attribute_to_str("Reset", shell) \o <<"o", "n", " ">>
         \o Attribute_to_str("Bold", shell) \o Color_to_str("Magenta", FALSE, shell)
         \o branch_symbol(use_unicode) \o branch.val \o <<" ">>
    ELSE <<>>

\* a threshold test that excludes the threshold itself
TookClauseStrict(elapsed, shell) ==
    IF elapsed > MIN_CMD_EXEC_TIME
    THEN Color_to_str("Yellow", FALSE, shell) \o <<"t", "o", "o", "k", " ">>
         \o humanize_duration(elapsed) \o <<" ">>
    ELSE <<>>

\* main.rs 238-245
TookClause(elapsed, shell) ==
    IF elapsed >= MIN_CMD_EXEC_TIME
    THEN Color_to_str("Yellow", FALSE, shell) \o <<"t", "o", "o", "k", " ">>
         \o humanize_duration(elapsed) \o <<" ">>
    ELSE <<>>

\* main.rs 246-256
SeparatorClause(non_zero, use_unicode, shell) ==
    (IF non_zero THEN Color_to_str("Red", FALSE, shell)
     ELSE Color_to_str("Green", FALSE, shell))
    \o separator_symbol(use_unicode) \o Attribute_to_str("Reset", shell)

\* main.rs 257-259
TrailingSpace(shell) == IF shell # "Bash" THEN <<" ">> ELSE <<>>

\* main.rs 208-259: the string s
Compose(args, env, path) ==
    LET shell == Shell_try_from(args.shell.val).val
    IN  RootClause(env.is_root, shell)
        \o PathClause(path, shell)
        \o BranchClause(IF GitOf(env).kind = "Some" THEN env.branch ELSE None,
                        args.unicode, shell)
        \o TookClause(ParseUsize(args.elapsed_seconds.val), shell)
        \o SeparatorClause(non_zero_exit_status(args), args.unicode, shell)
        \o TrailingSpace(shell)

\* ---- inputs of the prompt subcommand
MaxElapsed == 4
StrMain == <<"m", "a", "i", "n">>
ExitCodeTexts ==
    {<<"0">>, <<"1">>, <<"1", "2", "7">>, <<"0", "0">>, <<"+", "0">>,
     <<"a", "b", "c">>, <<>>}
ShellTexts == {StrZsh, StrBash, <<"s", "h">>, <<"Z", "s", "h">>}
ElapsedTexts ==
    {Digits(n) : n \in (0..MaxElapsed) \cup {59, 60, 125, 3600}}
    \cup {<<"+", "3">>, <<"-", "1">>, <<"1", ".", "5">>, <<"a", "b", "c">>, <<>>}
Optional(S) == {None} \cup {Some(x) : x \in S}
ArgSets ==
    [exit_code : Optional(ExitCodeTexts), shell : Optional(ShellTexts),
     elapsed_seconds : Optional(ElapsedTexts), unicode : BOOLEAN, short_path : BOOLEAN]
\* the working directory (or none), the depth of the repository's work
\* directory (-1: no repository), HEAD's branch, and whether getuid() is 0
Environments ==
    {env \in [cwd : Optional({<<SegHome, <<"u">>>>, <<<<"u">>, <<"p">>, <<"s">>>>}),
              root : {-1, 2}, branch : Optional({StrMain}), is_root : BOOLEAN] :
        /\ env.root = -1 => env.branch = None
        /\ env.cwd = None => env.root = -1}

MInit ==
    /\ m_args \in ArgSets
    /\ m_env \in Environments
    /\ m_stdout = <<>>
    /\ m_stderr = FALSE
    /\ m_status = -1
    /\ m_pc = "start"

MIdle ==
    /\ m_args = [exit_code |-> None, shell |-> None, elapsed_seconds |-> None,
                 unicode |-> FALSE, short_path |-> FALSE]
    /\ m_env = [cwd |-> None, root |-> -1, branch |-> None, is_root |-> FALSE]
    /\ m_stdout = <<>>
    /\ m_stderr = FALSE
    /\ m_status = -1
    /\ m_pc = "idle"

\* get_matches (main.rs 100-172): on a usage error clap writes the diagnostic to
\* standard error and exits with status 1
ClapReject ==
    /\ m_pc = "start"
    /\ ~ClapAccepts(m_args)
    /\ m_stderr' = TRUE
    /\ m_status' = 1
    /\ m_pc' = "exited"
    /\ UNCHANGED <<m_args, m_env, m_stdout, mrest>>

ClapMatch ==
    /\ m_pc = "start"
    /\ ClapAccepts(m_args)
    /\ m_pc' = "matched"
    /\ UNCHANGED <<m_args, m_env, m_stdout, m_stderr, m_status, mrest>>

\* main.rs 175-262; an index panic in get_current_path ends the process with
\* the panic message on standard error and status 101, before print!
Prompt ==
    /\ m_pc = "matched"
    /\ LET res == PathResult(m_args, m_env)
       IN  IF res.kind = "panic"
           THEN /\ m_stderr' = TRUE
                /\ m_status' = 101
                /\ m_stdout' = m_stdout
           ELSE /\ m_stdout' = Compose(m_args, m_env, unwrap_or(res, <<"?", "?">>))
                /\ m_status' = 0
                /\ m_stderr' = m_stderr
    /\ m_pc' = "exited"
    /\ UNCHANGED <<m_args, m_env, mrest>>

MNext == ClapReject \/ ClapMatch \/ Prompt

(***************************************************************************)
(* Shell::init_code, the zsh script (main.rs 382-400).  A shell variable   *)
(* that was never assigned is "unset" (flags) or -1 (numbers); it expands  *)
(* to the empty string and counts as 0 in $(( )).                          *)
(***************************************************************************)
MaxSeconds == 4
MaxPrompts == 3

\* the value of a variable inside $(( ))
Arith(v) == IF v = -1 THEN 0 ELSE v

\* main.rs 384-387
preexec(env, seconds) ==
    [env EXCEPT !.preexec_ran = "true", !.last_seconds = seconds]

\* main.rs 388-393
precmd(env, seconds) ==
    [env EXCEPT !.last_seconds = IF env.preexec_ran = "false" THEN seconds ELSE @,
                !.preexec_ran = "false"]

\* main.rs 395: the --elapsed-seconds argument, expanded when PROMPT is
zsh_elapsed(env, seconds) == seconds - Arith(env.last_seconds)

ZInit ==
    /\ z_seconds = 0
    /\ z_env = [preexec_ran |-> "unset", last_seconds |-> -1]
    /\ z_cmd = -1
    /\ z_obs = [prompts |-> 0, at |-> -1, cmd |-> -1, last |-> -1, elapsed |-> -1]

\* SECONDS advances
ZTick ==
    /\ z_seconds < MaxSeconds
    /\ z_seconds' = z_seconds + 1
    /\ UNCHANGED <<z_env, z_cmd, z_obs, zrest>>

\* the user runs a command line: zsh calls preexec once, before it starts;
\* z_cmd remembers SECONDS at that call until the next precmd
Preexec ==
    /\ z_cmd = -1
    /\ z_env' = preexec(z_env, z_seconds)
    /\ z_cmd' = z_seconds
    /\ UNCHANGED <<z_seconds, z_obs, zrest>>

\* zsh is about to print a prompt: it calls precmd and expands PROMPT; z_obs
\* records that prompt (whether and when a command ran in the cycle, the value
\* of _sprompt_last_seconds after precmd, the elapsed seconds passed)
Precmd ==
    /\ z_obs.prompts < MaxPrompts
    /\ z_env' = precmd(z_env, z_seconds)
    /\ z_obs' = [prompts |-> z_obs.prompts + 1, at |-> z_seconds, cmd |-> z_cmd,
                 last |-> z_env'.last_seconds,
                 elapsed |-> zsh_elapsed(z_env', z_seconds)]
    /\ z_cmd' = -1
    /\ UNCHANGED <<z_seconds, zrest>>

ZNext == ZTick \/ Preexec \/ Precmd

(***************************************************************************)
(* Shell::init_code, the bash script (main.rs 401-430)                     *)
(***************************************************************************)
\* "${name:=word}": assign word when name is unset
Default(v, word) == IF v = "unset" THEN word ELSE v

\* main.rs 403-407
_sprompt_beforecmd(env, seconds) ==
    LET ran == Default(env.beforecmd_ran, "false")
    IN  IF ran = "true" THEN [env EXCEPT !.beforecmd_ran = ran]
        ELSE [env EXCEPT !.beforecmd_ran = "true", !.last_seconds = seconds]

\* a hook that treats the first prompt like every other
AftercmdEveryRun(env, seconds) ==
    LET last == IF env.last_seconds = 0 THEN seconds ELSE env.last_seconds
    IN  [env EXCEPT !.aftercmd_first_run = "false",
                    !.beforecmd_ran = "false",
                    !.last_seconds = last,
                    !.elapsed_seconds = seconds - Arith(last)]

\* main.rs 410-421, up to the expansion of "${_sprompt_elapsed_seconds:=0}";
\* [ "$_sprompt_last_seconds" -eq 0 ] is false (an error) on an unset variable
_sprompt_aftercmd(env, seconds) ==
    IF Default(env.aftercmd_first_run, "true") = "true"
    THEN [env EXCEPT !.aftercmd_first_run = "false",
                     !.elapsed_seconds = IF @ = -1 THEN 0 ELSE @]
    ELSE LET last == IF env.last_seconds = 0 THEN seconds ELSE env.last_seconds
         IN  [env EXCEPT !.beforecmd_ran = "false",
                         !.last_seconds = last,
                         !.elapsed_seconds = seconds - Arith(last)]

BInit ==
    /\ b_seconds = 0
    /\ b_env = [beforecmd_ran |-> "unset", last_seconds |-> -1,
                aftercmd_first_run |-> "unset", elapsed_seconds |-> -1]
    /\ b_fired = -1
    /\ b_obs = [prompts |-> 0, at |-> -1, fired |-> -1, passed |-> -1]

\* SECONDS advances
BTick ==
    /\ b_seconds < MaxSeconds
    /\ b_seconds' = b_seconds + 1
    /\ UNCHANGED <<b_env, b_fired, b_obs, brest>>

\* bash is about to run a simple command (of the start-up files, or of a
\* command line): the DEBUG trap calls _sprompt_beforecmd; b_fired remembers
\* SECONDS at the first firing since the previous _sprompt_aftercmd
DebugTrap ==
    /\ b_env' = _sprompt_beforecmd(b_env, b_seconds)
    /\ b_fired' = IF b_fired = -1 THEN b_seconds ELSE b_fired
    /\ UNCHANGED <<b_seconds, b_obs, brest>>

\* bash is about to print a prompt and runs PROMPT_COMMAND: the DEBUG trap
\* fires for the simple command _sprompt_aftercmd, then the function runs;
\* b_obs records the prompt (when, the first firing of the cycle, the
\* --elapsed-seconds value passed)
PromptCommand ==
    /\ b_obs.prompts < MaxPrompts
    /\ b_env' = _sprompt_aftercmd(_sprompt_beforecmd(b_env, b_seconds), b_seconds)
    /\ b_obs' = [prompts |-> b_obs.prompts + 1, at |-> b_seconds,
                 fired |-> IF b_fired = -1 THEN b_seconds ELSE b_fired,
                 passed |-> b_env'.elapsed_seconds]
    /\ b_fired' = -1
    /\ UNCHANGED <<b_seconds, brest>>

BNext == BTick \/ DebugTrap \/ PromptCommand

InitHumanize == HInit /\ PIdle /\ EIdle /\ MIdle /\ ZInit /\ BInit

SpecHumanize == InitHumanize /\ [][Humanize]_vars

InitPath == PInit /\ HIdle /\ EIdle /\ MIdle /\ ZInit /\ BInit

SpecPath == InitPath /\ [][GetCurrentPath]_vars

InitEscape == EInit /\ HIdle /\ PIdle /\ MIdle /\ ZInit /\ BInit

ENext == Lookup \/ LookupOther

SpecEscape == InitEscape /\ [][ENext]_vars

InitMain == MInit /\ HIdle /\ PIdle /\ EIdle /\ ZInit /\ BInit

SpecMain == InitMain /\ [][MNext]_vars

InitZsh == ZInit /\ HIdle /\ PIdle /\ EIdle /\ MIdle /\ BInit

SpecZsh == InitZsh /\ [][ZNext]_vars

InitBash == BInit /\ HIdle /\ PIdle /\ EIdle /\ MIdle /\ ZInit

SpecBash == InitBash /\ [][BNext]_vars

\* ---- the reference rendering of the claim
Unit(n, u) == IF n = 0 THEN <<>> ELSE <<Digits(n) \o <<u>>>>

ReferenceRendering(s) ==
    JoinWith(Unit(s \div 3600, "h") \o Unit((s % 3600) \div 60, "m") \o Unit(s % 60, "s"),
             <<" ">>)

\* C1: for every non-negative s, humanize_duration(s) is the reference rendering
\* (the non-zero components of h, m, s joined by one space).
C1_HumanizeIsReference ==
    h_pc = "done" => h_out = ReferenceRendering(h_secs)

\* The same statement restricted to durations below 2^24 seconds, where the
\* binary32 conversion is exact.
C1_HumanizeIsReferenceBelow2p24 ==
    (h_pc = "done" /\ h_secs < Pow2(24)) => h_out = ReferenceRendering(h_secs)


\* ---- the path abbreviator's claims
PSub == HomeSubstitute(PathOf(p_cwd))
PSegs == Split(PSub, "/")
PKept == LastThree(PSegs)
PRootName == Toplevel(p_cwd, p_root)
PInRepo == p_short /\ PRootName.kind = "Some"

\* C2: a path of fewer than 3 segments is returned whole by both short modes
\* (all segments, in order, joined by "/"), without failing.
C2_ShortKeepsFewSegments ==
    (p_pc = "done" /\ p_short /\ Len(PSegs) < 3)
        => p_res = Some(JoinWith(PSegs, <<"/">>))

\* The part of C2 that concerns ShortGeneric only.
C2_ShortGenericKeepsFewSegments ==
    (p_pc = "done" /\ p_short /\ PRootName.kind = "None" /\ Len(PSegs) < 3)
        => p_res = Some(JoinWith(PSegs, <<"/">>))

\* C3 as stated: with kept segments [a, b, c] and root name R, the result is
\* "b/c" if b = R, else "c" if a = R, else "a/b/c".
C3_DropsByThirdToLast ==
    (p_pc = "done" /\ PInRepo /\ Len(PSegs) >= 3)
        => LET a == PKept[1]
               b == PKept[2]
               c == PKept[3]
               R == PRootName.val
           IN  p_res = Some(IF b = R THEN b \o <<"/">> \o c
                            ELSE IF a = R THEN c
                            ELSE a \o <<"/">> \o b \o <<"/">> \o c)

\* C3 amended: with kept segments [a, b, c] and root name R, the result is
\* "b/c" if b = R, else "c" if the last segment c = R, else "a/b/c".
C3_DropsByLast ==
    (p_pc = "done" /\ PInRepo /\ Len(PSegs) >= 3)
        => LET a == PKept[1]
               b == PKept[2]
               c == PKept[3]
               R == PRootName.val
           IN  p_res = Some(IF b = R THEN b \o <<"/">> \o c
                            ELSE IF c = R THEN c
                            ELSE a \o <<"/">> \o b \o <<"/">> \o c)

C3_RootIsLastReached ==
    /\ p_pc = "done" /\ PInRepo /\ Len(PSegs) >= 3
    /\ PKept[2] # PRootName.val /\ PKept[1] # PRootName.val
    /\ PKept[3] = PRootName.val
    /\ p_res = Some(PKept[3])

\* C4: in Full mode a path "/home/<user>" + rest becomes "~" + rest.
C4_HomeBecomesTilde ==
    (p_pc = "done" /\ ~p_short /\ Len(p_cwd) >= 2 /\ p_cwd[1] = SegHome)
        => p_res = Some(<<"~">> \o AbsPath(SubSeq(p_cwd, 3, Len(p_cwd))))

\* The same statement for paths whose rest has no directory named "home"
\* before its last segment.
C4_HomeBecomesTildeNoInnerHome ==
    (p_pc = "done" /\ ~p_short /\ Len(p_cwd) >= 2 /\ p_cwd[1] = SegHome
     /\ \A i \in 3..(Len(p_cwd) - 1) : p_cwd[i] # SegHome)
        => p_res = Some(<<"~">> \o AbsPath(SubSeq(p_cwd, 3, Len(p_cwd))))

\* ---- the escape catalog's claim
EZsh == IF e_shell = "Zsh" THEN e_out ELSE e_other
EBash == IF e_shell = "Bash" THEN e_out ELSE e_other
AttributeCode(name) ==
    CASE name = "Reset" -> 0 [] name = "Bold" -> 1
      [] name = "Underline" -> 4 [] name = "Reversed" -> 7
ColorCode(name) == 29 + (CHOOSE n \in 1..8 : Colors[n] = name)
ControlSequence(tok) ==
    <<ESC, "[">>
    \o (IF tok.type = "color"
        THEN Digits(ColorCode(tok.name)) \o (IF tok.bright THEN <<";", "1">> ELSE <<>>)
        ELSE Digits(AttributeCode(tok.name)))
    \o <<"m">>

\* C10: for every colour, brightness and attribute the zsh sequence is "%{" +
\* the bash sequence + "%}", the bash sequence is ESC "[" code "m", and the two
\* differ.
C10_ZshWrapsBash ==
    e_pc = "both" =>
        /\ EBash = ControlSequence(e_tok)
        /\ EZsh = <<"%", "{">> \o EBash \o <<"%", "}">>
        /\ EZsh # EBash

C10_BrightWhiteReached ==
    /\ e_pc = "both"
    /\ e_tok = [type |-> "color", name |-> "White", bright |-> TRUE]
    /\ EBash = <<ESC, "[", "3", "7", ";", "1", "m">>
    /\ Len(EZsh) = Len(EBash) + 4

\* ---- the prompt subcommand's claims
Contains(s, pat) ==
    \E i \in 1..(Len(s) - Len(pat) + 1) : SubSeq(s, i, i + Len(pat) - 1) = pat
EndsWith(s, suf) ==
    Len(suf) <= Len(s) /\ SubSeq(s, Len(s) - Len(suf) + 1, Len(s)) = suf

Unsigned(s) == IF s # <<>> /\ s[1] \in {"+", "-"} THEN Tail(s) ELSE s
\* the text denotes an integer: an optional sign and one or more digits
IsIntegerText(s) == AllDigits(Unsigned(s))
DenotesZero(s) == DecimalValue(Unsigned(s)) = 0
\* the text denotes a non-negative integer
IsNonNegativeText(s) == IsIntegerText(s) /\ (s[1] = "-" => DenotesZero(s))
\* the decimal numeral of an exit status as a shell expands "$?"
IsCanonicalText(s) == AllDigits(s) /\ (Len(s) > 1 => s[1] # "0")

MExitCode == m_args.exit_code
MShell == m_args.shell
MElapsed == m_args.elapsed_seconds
MPrinted == m_pc = "exited" /\ m_status = 0
MTarget == Shell_try_from(MShell.val).val

MalformedExitCode == MExitCode.kind = "Some" /\ ~IsIntegerText(MExitCode.val)
UnsupportedShell == MShell.kind = "Some" /\ MShell.val \notin {StrZsh, StrBash}
InvalidElapsed == MElapsed.kind = "Some" /\ ~IsNonNegativeText(MElapsed.val)
FatalOutcome == m_status # 0 /\ m_stderr /\ m_stdout = <<>>

\* C5: a malformed exit code, an unsupported shell or an elapsed-seconds value
\* that is no non-negative integer ends the invocation in an error: non-zero
\* exit, a diagnostic on standard error, nothing on standard output.
C5_InvalidInputIsFatal ==
    (m_pc = "exited" /\ (MalformedExitCode \/ UnsupportedShell \/ InvalidElapsed))
        => FatalOutcome

\* The part of C5 that concerns the shell and the elapsed seconds only.
C5_InvalidShellOrElapsedIsFatal ==
    (m_pc = "exited" /\ (UnsupportedShell \/ InvalidElapsed)) => FatalOutcome

\* C8: for every exit-code text that denotes an integer, the separator is
\* preceded by the target's green sequence when the integer is zero and by its
\* red sequence otherwise, and is followed at once by the reset sequence.
C8_SeparatorColourByExitCode ==
    (MPrinted /\ IsIntegerText(MExitCode.val)) =>
        EndsWith(TrimEnd(m_stdout),
                 Color_to_str(IF DenotesZero(MExitCode.val) THEN "Green" ELSE "Red",
                              FALSE, MTarget)
                 \o separator_symbol(m_args.unicode)
                 \o Attribute_to_str("Reset", MTarget))

\* The same statement for the exit-code texts a shell produces from "$?".
C8_SeparatorColourByCanonicalExitCode ==
    (MPrinted /\ IsCanonicalText(MExitCode.val)) =>
        EndsWith(TrimEnd(m_stdout),
                 Color_to_str(IF DenotesZero(MExitCode.val) THEN "Green" ELSE "Red",
                              FALSE, MTarget)
                 \o separator_symbol(m_args.unicode)
                 \o Attribute_to_str("Reset", MTarget))

StrTook == <<"t", "o", "o", "k">>

\* C9: the prompt has a "took " clause exactly when the elapsed seconds e are at
\* least 2; the clause is "took " followed by the non-empty humanize_duration(e);
\* for e in {0, 1} the output has neither "took" nor "0s".
C9_TookIffAtLeastTwo ==
    MPrinted =>
        LET e == ParseUsize(MElapsed.val)
        IN  /\ Contains(m_stdout, StrTook \o <<" ">>) <=> e >= 2
            /\ e >= 2 =>
                /\ humanize_duration(e) # <<>>
                /\ Contains(m_stdout,
                            StrTook \o <<" ">> \o humanize_duration(e) \o <<" ">>)
            /\ e < 2 =>
                /\ ~Contains(m_stdout, StrTook)
                /\ ~Contains(m_stdout, <<"0", "s">>)

C9_TookTwoMinutesReached ==
    /\ MPrinted
    /\ ParseUsize(MElapsed.val) = 125
    /\ Contains(m_stdout, StrTook \o <<" ", "2", "m", " ", "5", "s", " ">>)

\* ---- the hook scripts' claims
\* C7: at a prompt of a cycle in which no preexec ran the elapsed value is 0
\* (never the age of the session or an earlier command's duration); at a prompt
\* after a preexec it is SECONDS then minus SECONDS at that preexec.
C7_ZshElapsedPerCycle ==
    z_obs.prompts >= 1 =>
        IF z_obs.cmd = -1 THEN z_obs.elapsed = 0
        ELSE z_obs.elapsed = z_obs.at - z_obs.cmd

\* C7's mechanism: in such a cycle precmd has set _sprompt_last_seconds to SECONDS.
C7_ZshPrecmdSetsLastSeconds ==
    (z_obs.prompts >= 1 /\ z_obs.cmd = -1) => z_obs.last = z_obs.at

\* Both statements for every prompt but the first of the session.
C7_ZshElapsedAfterFirstPrompt ==
    z_obs.prompts >= 2 =>
        IF z_obs.cmd = -1 THEN z_obs.last = z_obs.at /\ z_obs.elapsed = 0
        ELSE z_obs.elapsed = z_obs.at - z_obs.cmd

\* C6: the first run of _sprompt_aftercmd in a session passes
\* --elapsed-seconds 0, whatever the debug trap did before and whatever SECONDS is.
C6_BashFirstPromptPassesZero ==
    b_obs.prompts = 1 => b_obs.passed = 0

C6_FirstPromptAfterStartupReached ==
    /\ b_obs.prompts = 1
    /\ b_obs.fired >= 1
    /\ b_obs.at > b_obs.fired
    /\ b_env.last_seconds = b_obs.fired
    /\ b_obs.passed = 0

\* C11: at every prompt after the first, the elapsed value passed is SECONDS at
\* that _sprompt_aftercmd minus SECONDS at the first debug-trap firing since the
\* previous _sprompt_aftercmd (the firing that is to write _sprompt_last_seconds).
C11_BashElapsedSinceFirstFiring ==
    b_obs.prompts >= 2 => b_obs.passed = b_obs.at - b_obs.fired

\* C11's first part: a firing that is not the first of its cycle leaves
\* _sprompt_last_seconds unchanged, and only _sprompt_aftercmd sets
\* _sprompt_beforecmd_ran back to false.
C11_LaterFiringsKeepLastSeconds ==
    [][/\ (b_fired # -1 /\ b_fired' # -1)
            => b_env'.last_seconds = b_env.last_seconds
       /\ (b_env.beforecmd_ran = "true" /\ b_env'.beforecmd_ran = "false")
            => b_obs'.prompts = b_obs.prompts + 1]_vars

\* The elapsed value from the third prompt on, for cycles whose first firing
\* happened when SECONDS was not 0.
C11_BashElapsedFromThirdPrompt ==
    (b_obs.prompts >= 3 /\ b_obs.fired # 0) => b_obs.passed = b_obs.at - b_obs.fired
====
